---------------------------- MODULE Spec2Model ----------------------------
(***************************************************************************)
(* Model of automations/keyword_ranking_tracker/keyword_ranking_tracker.py *)
(*                                                                         *)
(* The program is a sequential batch job: main() resolves its settings,    *)
(* loads the keyword list, calls fetch_serp_data once per keyword, writes  *)
(* the collected records to a CSV file and optionally appends them to a    *)
(* Google sheet.                                                           *)
(*                                                                         *)
(* Python values are modelled as follows.                                  *)
(*   - None / a value      : None / Some(v)                                *)
(*   - a str               : a sequence of one-character strings, so that  *)
(*                           `a in b` is real substring containment        *)
(*   - a file system path  : the sequence of its components                *)
(*   - a keyword           : a TLA+ string (it is never taken apart)       *)
(*   - datetime.utcnow()   : a logical clock that ticks once per query     *)
(*                                                                         *)
(* The environment is modelled inside its documented interface: the config *)
(* file holds a mapping, an HTTP response with status 200 carries a JSON   *)
(* object, the files named on the command line exist, and calls to the     *)
(* network return.  Exceptions that the code raises deterministically on   *)
(* inputs inside that interface (os.makedirs('')) are modelled.            *)
(***************************************************************************)
EXTENDS Integers, Sequences, FiniteSets, TLC

VARIABLES
    pc,               \* position of main(): see PcValues
    gspread,          \* TRUE iff the optional import of lines 10-14 succeeded
    args,             \* argparse namespace: [output, google_sheet]
    env,              \* process environment, the three variables main reads
    config,           \* mapping returned by load_config
    api_key,          \* main's local of line 78
    target_domain,    \* main's local of line 79
    credentials_json, \* main's local of line 80
    keywords,         \* main's local of line 86
    i,                \* 1-based index of the next keyword of the for loop
    resp,             \* the last HTTP response received (None before any)
    res,              \* the last value returned by fetch_serp_data
    results,          \* main's local of line 87
    queries,          \* log of the GET requests issued, in order
    statuses,         \* log of the status codes received, in order
    clock,            \* logical UTC clock
    output_path,      \* main's local of line 94
    dirs,             \* directories that exist
    files,            \* files written: set of [path, content]
    j,                \* 1-based index of the next row of update_google_sheet
    sheet_rows,       \* log of the append_row calls, in order
    stdout,           \* lines printed to standard output
    stderr,           \* lines printed to standard error
    exc,              \* the uncaught exception that ended the run, if any
    exit_status       \* the process exit status once the run has ended

vars == << pc, gspread, args, env, config, api_key, target_domain,
           credentials_json, keywords, i, resp, res, results, queries,
           statuses, clock, output_path, dirs, files, j, sheet_rows,
           stdout, stderr, exc, exit_status >>

---------------------------------------------------------------------------
(* Python values *)

None == [some |-> FALSE]

Some(v) == [some |-> TRUE, val |-> v]

\* Python truthiness of an optional str / path: None and '' are falsy.
Truthy(v) == v.some /\ v.val # << >>

\* Python `sub in s` on str.
In(sub, s) ==
    \E k \in 0 .. (Len(s) - Len(sub)) : SubSeq(s, k + 1, k + Len(sub)) = sub

\* dict.get(key, default) on an optional field.
Get(field, default) == IF field.some THEN field.val ELSE default

---------------------------------------------------------------------------
(* Bounds of the model *)

MaxLines == 3       \* lines of the keyword file
MaxResults == 2     \* organic results of a response (SpecFetch)
MaxLinkLen == 2     \* characters of a link (SpecFetch)
MaxDomainLen == 2   \* characters of the target domain (SpecFetch)

Chars == {"a", "b"}

\* All str over Chars of length lo..hi.
Strs(lo, hi) == UNION { [1 .. n -> Chars] : n \in lo .. hi }


---------------------------------------------------------------------------
(* fetch_serp_data, lines 27-49 *)

\* An organic result is [link]: link is None when the key is missing.
\* A response is [status, organic_results, search_information]; the last two
\* are the keys of the JSON body, None when missing.  search_information,
\* when present, is [total_results], itself optional.

StatusOK == 200

\* The request of lines 28-29: the query string carries the keyword and key.
Request(keyword, key) == [q |-> keyword, engine |-> "google", api_key |-> key]

\* result.get('link', '') of line 39
LinkText(result) == Get(result.link, << >>)

\* result.get('link') of line 41
MatchedUrlMissing(result) == None

MatchedUrl(result) == result.link

\* The same loop without the break of line 42: the last match wins.
RECURSIVE ScanResultsNoBreak(_, _, _)
ScanResultsNoBreak(organic, domain, idx) ==
    IF idx > Len(organic)
    THEN [rank |-> None, url |-> None]
    ELSE LET rest == ScanResultsNoBreak(organic, domain, idx + 1)
         IN  IF rest.rank.some \/ ~In(domain, LinkText(organic[idx]))
             THEN rest
             ELSE [rank |-> Some(idx), url |-> MatchedUrl(organic[idx])]

\* The loop of lines 36-42 from position idx on: [rank, url] of the first
\* result whose link text contains the target domain, both None if none does.
RECURSIVE ScanResults(_, _, _)
ScanResults(organic, domain, idx) ==
    IF idx > Len(organic)
    THEN [rank |-> None, url |-> None]
    ELSE IF In(domain, LinkText(organic[idx]))
         THEN [rank |-> Some(idx), url |-> MatchedUrl(organic[idx])]
         ELSE ScanResults(organic, domain, idx + 1)

\* data.get('search_information', {}).get('total_results', None), line 35
SearchVolume(r) ==
    IF r.search_information.some
    THEN r.search_information.val.total_results
    ELSE None

\* The value fetch_serp_data returns for response r received at time now:
\* None on a status other than 200, else the record of lines 43-49.
fetch_serp_data(keyword, domain, r, now) ==
    IF r.status # StatusOK
    THEN None
    ELSE LET m == ScanResults(Get(r.organic_results, << >>), domain, 1)
         IN  Some([keyword       |-> keyword,
                   rank          |-> m.rank,
                   url           |-> m.url,
                   search_volume |-> SearchVolume(r),
                   timestamp     |-> now])

\* The line fetch_serp_data prints to standard error on a failed query.
FetchError(keyword, r) == << "Error fetching SERP", keyword, r.status >>

---------------------------------------------------------------------------
(* The sink, lines 52-66 and 93-96 *)

\* Key order of the record of lines 43-49, which is the DataFrame's column
\* order, and the cell order of line 66.
Columns == << "keyword", "rank", "url", "search_volume", "timestamp" >>

RowOf(row) ==
    << row.keyword, row.rank, row.url, row.search_volume, row.timestamp >>

\* save_to_csv: pd.DataFrame(results).to_csv(path, index=False).  A DataFrame
\* built from a list of dicts takes its columns from the dicts' keys, so the
\* DataFrame of an empty list has no columns and its CSV has an empty header.
CsvOf(rs) ==
    [header |-> IF rs = << >> THEN << >> ELSE Columns,
     rows   |-> [k \in 1 .. Len(rs) |-> RowOf(rs[k])]]

\* os.path.dirname
Dirname(path) == SubSeq(path, 1, Len(path) - 1)

\* os.makedirs(d, exist_ok=True) raises FileNotFoundError on ''.
MakedirsRaises(d) == d = << >>

\* The directories that exist after os.makedirs(d, exist_ok=True).
Makedirs(d, existing) == existing \cup { SubSeq(d, 1, n) : n \in 1 .. Len(d) }

\* datetime.utcnow().strftime('%Y-%m-%d') of line 93
Today == "2026-11-05"

\* line 94
DefaultOutputPath(today) == << "results", << "keyword_rankings_", today, ".csv" >> >>

OutputPath(output, today) ==
    IF Truthy(output) THEN output.val ELSE DefaultOutputPath(today)

---------------------------------------------------------------------------
(* Configuration, lines 77-84, and the keyword file, lines 22-24 *)

\* os.getenv(name, default): the variable's value when it is set (an empty
\* value included), else the default.
GetenvConfigFirst(envval, default) == IF default.some THEN default ELSE envval

Getenv(envval, default) == IF envval.some THEN envval ELSE default

\* The test of line 82.
ConfigMissingBoth(key, domain) == ~Truthy(key) /\ ~Truthy(domain)

ConfigMissing(key, domain) == ~Truthy(key) \/ ~Truthy(domain)

ConfigError == "SERPAPI_KEY and TARGET_DOMAIN must be set in environment or config."

\* load_keywords: the lines of the file that are not blank, in file order.
\* A blank line is modelled as "".
RECURSIVE load_keywords(_)
load_keywords(lines) ==
    IF lines = << >>
    THEN << >>
    ELSE IF Head(lines) = ""
         THEN load_keywords(Tail(lines))
         ELSE << Head(lines) >> \o load_keywords(Tail(lines))

\* The body of the loop at lines 90-91.
CollectPrepend(rs, r) == IF r.some THEN << r.val >> \o rs ELSE rs

Collect(rs, r) == IF r.some THEN Append(rs, r.val) ELSE rs

\* The for statement of line 88: the index of the keyword that follows the
\* one at idx of n, whatever fetch_serp_data returned for it.
NextIndexBreakOnFailure(idx, ret, n) == IF ret.some THEN idx + 1 ELSE n + 1

NextIndex(idx, ret, n) == idx + 1

\* The guard of line 99.
SheetRequestedEither(sheet, credentials) == Truthy(sheet) \/ Truthy(credentials)

SheetRequested(sheet, credentials) == Truthy(sheet) /\ Truthy(credentials)

---------------------------------------------------------------------------
(* The inputs of a run *)

Lines == {"k1", "k2", ""}

KeywordFiles == UNION { [1 .. n -> Lines] : n \in 0 .. MaxLines }

EnvKeys == {None, Some(<< >>), Some(<< "e" >>)}
CfgKeys == {None, Some(<< "c" >>)}
EnvDomains == {None, Some(<< >>), Some(<< "b", "a" >>)}
CfgDomains == {None, Some(<< "a", "b" >>)}
EnvCredentials == {None, Some(<< >>)}
CfgCredentials == {None, Some(<< "j" >>)}

Outputs == {None, Some(<< "out.csv" >>), Some(<< "d", "e", "out.csv" >>)}
Sheets == {None, Some(<< "S" >>)}

Link(s) == [link |-> Some(s)]
NoLink == [link |-> None]

Response(status, organic, info) ==
    [status |-> status, organic_results |-> organic, search_information |-> info]

\* The responses the search API gives during a run: a server error, a first
\* result on both target domains, and a result without a link followed by a
\* result on one of them.
RunResponses ==
    { Response(500, None, None),
      Response(StatusOK, Some(<< Link(<< "b", "a", "b" >>) >>),
               Some([total_results |-> Some(7)])),
      Response(StatusOK, Some(<< NoLink, Link(<< "a", "b" >>) >>),
               Some([total_results |-> None])) }

PcValues ==
    {"start", "keywords", "loop", "save", "sheet_gate", "sheet", "done",
     "call", "returned"}

Init ==
    /\ pc = "start"
    /\ gspread \in BOOLEAN
    /\ args \in [output : Outputs, google_sheet : Sheets]
    /\ env \in [SERPAPI_KEY : EnvKeys, TARGET_DOMAIN : EnvDomains,
                GOOGLE_SHEETS_CREDENTIALS : EnvCredentials]
    /\ config \in [SERPAPI_KEY : CfgKeys, TARGET_DOMAIN : CfgDomains,
                   GOOGLE_SHEETS_CREDENTIALS : CfgCredentials]
    /\ api_key = None
    /\ target_domain = None
    /\ credentials_json = None
    /\ keywords = << >>
    /\ i = 1
    /\ resp = None
    /\ res = None
    /\ results = << >>
    /\ queries = << >>
    /\ statuses = << >>
    /\ clock = 0
    /\ output_path = None
    /\ dirs = { << "d" >> }
    /\ files = {}
    /\ j = 1
    /\ sheet_rows = << >>
    /\ stdout = << >>
    /\ stderr = << >>
    /\ exc = None
    /\ exit_status = None

---------------------------------------------------------------------------
(* main, lines 69-100 *)

\* Lines 77-84: resolve the settings; exit with status 1 when the API key or
\* the target domain is missing.
ResolveConfig ==
    /\ pc = "start"
    /\ LET key    == Getenv(env.SERPAPI_KEY, config.SERPAPI_KEY)
           domain == Getenv(env.TARGET_DOMAIN, config.TARGET_DOMAIN)
       IN  /\ api_key' = key
           /\ target_domain' = domain
           /\ credentials_json' = Getenv(env.GOOGLE_SHEETS_CREDENTIALS,
                                         config.GOOGLE_SHEETS_CREDENTIALS)
           /\ IF ConfigMissing(key, domain)
              THEN /\ stderr' = Append(stderr, << ConfigError >>)
                   /\ exit_status' = Some(1)
                   /\ pc' = "done"
              ELSE /\ pc' = "keywords"
                   /\ UNCHANGED << stderr, exit_status >>
    /\ UNCHANGED << gspread, args, env, config, keywords, i, resp, res,
                    results, queries, statuses, clock, output_path, dirs,
                    files, j, sheet_rows, stdout, exc >>

\* Lines 86-87: read the keyword file.
LoadKeywords ==
    /\ pc = "keywords"
    /\ \E lines \in KeywordFiles : keywords' = load_keywords(lines)
    /\ results' = << >>
    /\ i' = 1
    /\ pc' = "loop"
    /\ UNCHANGED << gspread, args, env, config, api_key, target_domain,
                    credentials_json, resp, res, queries, statuses, clock,
                    output_path, dirs, files, j, sheet_rows, stdout, stderr,
                    exc, exit_status >>

\* Lines 88-91: one iteration of the loop, the call of fetch_serp_data
\* (lines 28-49) included.
FetchKeyword ==
    /\ pc = "loop"
    /\ i <= Len(keywords)
    /\ \E r \in RunResponses :
         LET kw  == keywords[i]
             now == clock + 1
             ret == fetch_serp_data(kw, target_domain.val, r, now)
         IN  /\ queries' = Append(queries, Request(kw, api_key.val))
             /\ statuses' = Append(statuses, r.status)
             /\ resp' = Some(r)
             /\ clock' = now
             /\ res' = ret
             /\ stderr' = IF ret.some THEN stderr
                          ELSE Append(stderr, FetchError(kw, r))
             /\ results' = Collect(results, ret)
             /\ i' = NextIndex(i, ret, Len(keywords))
    /\ UNCHANGED << pc, gspread, args, env, config, api_key, target_domain,
                    credentials_json, keywords, output_path, dirs, files, j,
                    sheet_rows, stdout, exc, exit_status >>

\* Lines 93-95, reached when the loop is over: the output path and its
\* parent directories.  An exception of os.makedirs is not caught: the run
\* ends with a traceback and exit status 1.
PrepareOutput ==
    /\ pc = "loop"
    /\ i > Len(keywords)
    /\ LET path == OutputPath(args.output, Today)
       IN  /\ output_path' = Some(path)
           /\ IF MakedirsRaises(Dirname(path))
              THEN /\ exc' = Some("FileNotFoundError")
                   /\ stderr' = Append(stderr, << "Traceback" >>)
                   /\ exit_status' = Some(1)
                   /\ pc' = "done"
                   /\ UNCHANGED dirs
              ELSE /\ dirs' = Makedirs(Dirname(path), dirs)
                   /\ pc' = "save"
                   /\ UNCHANGED << exc, stderr, exit_status >>
    /\ UNCHANGED << gspread, args, env, config, api_key, target_domain,
                    credentials_json, keywords, i, resp, res, results,
                    queries, statuses, clock, files, j, sheet_rows, stdout >>

\* Lines 96-97: save_to_csv writes the file, replacing one already there.
SaveCsv ==
    /\ pc = "save"
    /\ files' = { f \in files : f.path # output_path.val }
                \cup { [path |-> output_path.val, content |-> CsvOf(results)] }
    /\ stdout' = Append(stdout, << "Saved results to", output_path.val >>)
    /\ pc' = "sheet_gate"
    /\ UNCHANGED << gspread, args, env, config, api_key, target_domain,
                    credentials_json, keywords, i, resp, res, results,
                    queries, statuses, clock, output_path, dirs, j,
                    sheet_rows, stderr, exc, exit_status >>

\* Lines 99-100 and 58-64: the guard of the sheet update, the test for the
\* optional dependency, and the opening of the sheet.  main returns, and
\* the process exits with status 0, when there is nothing to append.
OpenSheet ==
    /\ pc = "sheet_gate"
    /\ j' = 1
    /\ IF ~SheetRequested(args.google_sheet, credentials_json)
       THEN /\ pc' = "done"
            /\ exit_status' = Some(0)
            /\ UNCHANGED stdout
       ELSE IF ~gspread
            THEN /\ stdout' = Append(stdout, << "gspread not installed" >>)
                 /\ pc' = "done"
                 /\ exit_status' = Some(0)
            ELSE /\ UNCHANGED stdout
                 /\ IF results = << >>
                    THEN pc' = "done" /\ exit_status' = Some(0)
                    ELSE pc' = "sheet" /\ UNCHANGED exit_status
    /\ UNCHANGED << gspread, args, env, config, api_key, target_domain,
                    credentials_json, keywords, i, resp, res, results,
                    queries, statuses, clock, output_path, dirs, files,
                    sheet_rows, stderr, exc >>

\* Lines 65-66: one append_row call; after the last one main returns.
AppendRow ==
    /\ pc = "sheet"
    /\ j <= Len(results)
    /\ sheet_rows' = Append(sheet_rows, RowOf(results[j]))
    /\ j' = j + 1
    /\ IF j = Len(results)
       THEN pc' = "done" /\ exit_status' = Some(0)
       ELSE UNCHANGED << pc, exit_status >>
    /\ UNCHANGED << gspread, args, env, config, api_key, target_domain,
                    credentials_json, keywords, i, resp, res, results,
                    queries, statuses, clock, output_path, dirs, files,
                    stdout, stderr, exc >>

Next ==
    \/ ResolveConfig
    \/ LoadKeywords
    \/ FetchKeyword
    \/ PrepareOutput
    \/ SaveCsv
    \/ OpenSheet
    \/ AppendRow

Spec == Init /\ [][Next]_vars

---------------------------------------------------------------------------
(* fetch_serp_data on its own: every response within the bounds *)

OrganicResults == {NoLink} \cup { Link(s) : s \in Strs(0, MaxLinkLen) }

ResultLists == UNION { [1 .. n -> OrganicResults] : n \in 0 .. MaxResults }

Infos == {None, Some([total_results |-> None]), Some([total_results |-> Some(7)])}

FetchResponses ==
    { Response(StatusOK, organic, info) :
        organic \in {None} \cup { Some(l) : l \in ResultLists }, info \in Infos }
    \cup { Response(404, None, None), Response(500, None, None) }

InitFetch ==
    /\ pc = "call"
    /\ gspread = FALSE
    /\ args = [output |-> None, google_sheet |-> None]
    /\ env = [SERPAPI_KEY |-> None, TARGET_DOMAIN |-> None,
              GOOGLE_SHEETS_CREDENTIALS |-> None]
    /\ config = [SERPAPI_KEY |-> None, TARGET_DOMAIN |-> None,
                 GOOGLE_SHEETS_CREDENTIALS |-> None]
    /\ api_key = Some(<< "e" >>)
    /\ target_domain \in { Some(d) : d \in Strs(1, MaxDomainLen) }
    /\ credentials_json = None
    /\ keywords = << "k1" >>
    /\ i = 1
    /\ resp \in { Some(r) : r \in FetchResponses }
    /\ res = None
    /\ results = << >>
    /\ queries = << >>
    /\ statuses = << >>
    /\ clock = 0
    /\ output_path = None
    /\ dirs = {}
    /\ files = {}
    /\ j = 1
    /\ sheet_rows = << >>
    /\ stdout = << >>
    /\ stderr = << >>
    /\ exc = None
    /\ exit_status = None

\* One call of fetch_serp_data, lines 27-49, answered by the response resp.
CallFetch ==
    /\ pc = "call"
    /\ LET kw  == keywords[i]
           r   == resp.val
           now == clock + 1
           ret == fetch_serp_data(kw, target_domain.val, r, now)
       IN  /\ queries' = Append(queries, Request(kw, api_key.val))
           /\ statuses' = Append(statuses, r.status)
           /\ clock' = now
           /\ res' = ret
           /\ stderr' = IF ret.some THEN stderr
                        ELSE Append(stderr, FetchError(kw, r))
    /\ pc' = "returned"
    /\ UNCHANGED << gspread, args, env, config, api_key, target_domain,
                    credentials_json, keywords, i, resp, results,
                    output_path, dirs, files, j, sheet_rows, stdout, exc,
                    exit_status >>

NextFetch == CallFetch

SpecFetch == InitFetch /\ [][NextFetch]_vars

---------------------------------------------------------------------------
(* Properties *)

TypeOK ==
    /\ pc \in PcValues
    /\ gspread \in BOOLEAN
    /\ i \in 1 .. Len(keywords) + 1
    /\ j \in 1 .. Len(results) + 1
    /\ exit_status \in {None, Some(0), Some(1)}

\* The loop of main is over.
LoopOver == pc \in {"save", "sheet_gate", "sheet"} \/ (pc = "done" /\ output_path.some)

\* The run ended by main returning.
Completed == pc = "done" /\ output_path.some /\ ~exc.some

\* A setting that is missing or empty.
Unset(v) == v = None \/ v = Some(<< >>)

\* C1: a failed query never stops the batch: the queries issued are always
\* the first input keywords, one query each and in input order, and once the
\* loop is over every input keyword has been queried exactly once.
C1_OneQueryPerKeyword ==
    /\ Len(queries) <= Len(keywords)
    /\ Len(statuses) = Len(queries)
    /\ \A k \in 1 .. Len(queries) : queries[k].q = keywords[k]
    /\ LoopOver => Len(queries) = Len(keywords)

\* A run of three keywords whose first query failed and whose loop is over.
C1_Witness ==
    /\ pc = "save"
    /\ Len(keywords) = 3
    /\ statuses[1] # StatusOK
    /\ Len(queries) = 3

\* The keywords of kws whose query, by the status log sts, succeeded.
RECURSIVE Successful(_, _)
Successful(kws, sts) ==
    IF kws = << >>
    THEN << >>
    ELSE IF Head(sts) = StatusOK
         THEN << Head(kws) >> \o Successful(Tail(kws), Tail(sts))
         ELSE Successful(Tail(kws), Tail(sts))

\* C2: when the results are handed to the sink, the records are the input
\* keywords with the failed ones removed, in input order: at most one record
\* per keyword, and exactly one when every fetch succeeded.
C2_RecordsAreSuccessfulKeywords ==
    pc = "save" =>
        /\ [k \in 1 .. Len(results) |-> results[k].keyword]
              = Successful(keywords, statuses)
        /\ Len(results) <= Len(keywords)
        /\ (\A k \in 1 .. Len(statuses) : statuses[k] = StatusOK)
              => Len(results) = Len(keywords)

\* Three distinct-ended keywords, the middle query failed.
C2_Witness ==
    /\ pc = "save"
    /\ Len(keywords) = 3
    /\ keywords[1] # keywords[3]
    /\ statuses = << StatusOK, 500, StatusOK >>
    /\ Len(results) = 2

\* The positions of the organic results of r whose link contains domain.
Hits(r, domain) ==
    LET organic == Get(r.organic_results, << >>)
    IN  { p \in 1 .. Len(organic) :
            organic[p].link.some /\ In(domain, organic[p].link.val) }

\* C3: for a successful response, the record returned has the rank of the
\* first organic result whose link contains the target domain and that
\* result's link as url; when no link contains it, rank and url are absent
\* and the record, with keyword and timestamp, is still returned.
C3_RankIsFirstMatch ==
    (pc = "returned" /\ resp.val.status = StatusOK) =>
        LET r    == resp.val
            hits == Hits(r, target_domain.val)
        IN  /\ res.some
            /\ res.val.keyword = keywords[1]
            /\ res.val.timestamp = clock
            /\ IF hits = {}
               THEN res.val.rank = None /\ res.val.url = None
               ELSE LET first == CHOOSE p \in hits : \A q \in hits : p <= q
                    IN  /\ res.val.rank = Some(first)
                        /\ res.val.url = r.organic_results.val[first].link

\* Two results on the target domain: the first one decides.
C3_Witness ==
    /\ pc = "returned"
    /\ resp.val.status = StatusOK
    /\ Cardinality(Hits(resp.val, target_domain.val)) = 2
    /\ res.val.rank = Some(1)

\* C4: in the record fetch_serp_data returned last and in every record of
\* the results sequence, rank is present if and only if url is present.
C4_RankIffUrl ==
    /\ res.some => (res.val.rank.some <=> res.val.url.some)
    /\ \A k \in 1 .. Len(results) :
         results[k].rank.some <=> results[k].url.some

\* Results holding a record with a rank and a record without one.
C4_Witness ==
    /\ Len(results) = 2
    /\ results[1].rank.some
    /\ ~results[2].rank.some

\* C5: when the API key or the target domain is missing or empty after the
\* merge, the run has ended with status 1 and has issued no query, written
\* no file and appended no spreadsheet row.
C5_FailFast ==
    (pc # "start" /\ (Unset(api_key) \/ Unset(target_domain))) =>
        /\ pc = "done"
        /\ exit_status = Some(1)
        /\ queries = << >>
        /\ files = {}
        /\ sheet_rows = << >>

\* The key is there, the domain is set to the empty string.
C5_Witness ==
    /\ pc = "done"
    /\ ~Unset(api_key)
    /\ target_domain = Some(<< >>)
    /\ exit_status = Some(1)

\* C6: a run that has ended has status 1 if the API key or the target domain
\* is missing, and status 0 in every other case.
C6_ExitStatus ==
    pc = "done" =>
        exit_status = IF Unset(api_key) \/ Unset(target_domain)
                      THEN Some(1) ELSE Some(0)

\* C7: once the loop is over and the sink has run, the CSV file is at the
\* output path, whatever the path.
C7_CsvAtOutputPath ==
    (pc \in {"sheet_gate", "sheet"} \/ (pc = "done" /\ output_path.some)) =>
        \E f \in files : f.path = output_path.val

\* C8: the CSV written by a completed run has the header keyword, rank, url, search_volume,
\* timestamp and one row per record, in record order, for every number of
\* records.
C8_CsvHeaderAndRows ==
    Completed =>
        \A f \in files :
            /\ f.content.header = Columns
            /\ Len(f.content.rows) = Len(results)
            /\ \A k \in 1 .. Len(results) :
                 f.content.rows[k][1] = results[k].keyword

\* The value of a setting after the merge: the environment's when set.
Merged(name) == IF env[name].some THEN env[name] ELSE config[name]

\* C9: each setting resolves to the environment variable's value when the
\* variable is set and to the config file's value otherwise, and the
\* mandatory-setting check is applied to these values.
C9_EnvOverridesConfig ==
    pc # "start" =>
        /\ api_key = Merged("SERPAPI_KEY")
        /\ target_domain = Merged("TARGET_DOMAIN")
        /\ credentials_json = Merged("GOOGLE_SHEETS_CREDENTIALS")
        /\ (pc = "done" /\ exit_status = Some(1) /\ ~output_path.some)
              <=> (Unset(Merged("SERPAPI_KEY")) \/ Unset(Merged("TARGET_DOMAIN")))

\* The key comes from the environment over the config file's, the domain
\* from the config file, and the check has passed.
C9_Witness ==
    /\ pc = "keywords"
    /\ env.SERPAPI_KEY.some /\ config.SERPAPI_KEY.some
    /\ api_key = env.SERPAPI_KEY /\ api_key # config.SERPAPI_KEY
    /\ ~env.TARGET_DOMAIN.some
    /\ target_domain = config.TARGET_DOMAIN

\* C10: spreadsheet rows are appended only after the CSV has been written
\* and only when a sheet name and credentials are supplied; they are the
\* records, in order, in the column order keyword, rank, url, search_volume,
\* timestamp; a completed run has appended one row per record when the sheet
\* was requested and the dependency is available, and none otherwise;
\* without the dependency the run still ends with status 0.
C10_SheetRowsAfterCsv ==
    /\ sheet_rows # << >> =>
         /\ \E f \in files : f.path = output_path.val
         /\ Truthy(args.google_sheet) /\ Truthy(credentials_json)
         /\ gspread
    /\ Len(sheet_rows) <= Len(results)
    /\ \A k \in 1 .. Len(sheet_rows) :
         sheet_rows[k] = << results[k].keyword, results[k].rank, results[k].url,
                            results[k].search_volume, results[k].timestamp >>
    /\ Completed =>
         /\ exit_status = Some(0)
         /\ Len(sheet_rows) =
              IF Truthy(args.google_sheet) /\ Truthy(credentials_json) /\ gspread
              THEN Len(results) ELSE 0

\* A completed run that appended two different rows.
C10_Witness ==
    /\ Completed
    /\ Len(sheet_rows) = 2
    /\ sheet_rows[1][1] # sheet_rows[2][1]

=============================================================================
